---- MODULE Spec2Model ----
(***************************************************************************)
(* Model of libcube/cubes/cube2x2simple.py: the corner-only 2x2 cube.      *)
(* A State is a pair of 8-entry tuples (corner_pos, corner_ort), indexed   *)
(* 0..7 as in the source.  An external driver holds a State and calls      *)
(* transform, encode_inplace and render on it.                             *)
(***************************************************************************)
EXTENDS Integers, Sequences, FiniteSets

VARIABLES
    state,      \* the State value the driver currently holds
    path,       \* history: the actions passed to transform so far, in order
    hist,       \* history: hist[k] is the State held after k-1 transform calls
    target,     \* the caller's 7 x 24 buffer handed to encode_inplace
    encoded,    \* history: the States encoded into target since it was zeroed
    sides,      \* <<r>> for the RenderedState r of the last render call, << >> before it
    shown,      \* history: <<s>> for the State s that call was given, << >> before it
    form,       \* the action token at hand, a sequence of characters
    origin,     \* history: the action render_action turned into form, "text" for outside text
    parsed,     \* <<c>> for the to_action call c (form, origin, ret) on form, << >> before it
    calls,      \* for each of two concurrent callers, its encode_inplace call
    bufs,       \* the two buffers those callers choose their target from
    bcall       \* <<c>> for the last call c made on a State built by hand, << >> before it

tokenVars == <<form, origin, parsed>>

concVars == <<calls, bufs>>

vars == <<state, path, hist, target, encoded, sides, shown, form, origin, parsed,
          calls, bufs, bcall>>

\* ------------------------------------------------------------------ bounds
\* longest sequence of transform calls the driver makes
MaxMoves == 5
\* longest sequence of transform calls of a driver that also encodes or renders
MaxViewMoves == 3
\* most encode_inplace calls into one buffer before the caller zeroes it
MaxEncodes == 2
\* longest outside text handed to to_action
MaxTextLen == 2
\* longest sequence of transform calls of a driver that builds States by hand
MaxBuiltMoves == 1

\* ------------------------------------------------------- the state algebra
Slots == 0..7

\* class Action(enum.Enum)
Action == {"R", "T", "B", "r", "t", "b"}

\* initial_state = State(corner_pos=tuple(range(8)), corner_ort=tuple([0]*8))
initial_state == [corner_pos |-> [i \in Slots |-> i],
                  corner_ort |-> [i \in Slots |-> 0]]

\* a slip: only the orientations are compared
is_initial_ort_only(s) == s.corner_ort = initial_state.corner_ort

\* is_initial(state)
is_initial(s) == /\ s.corner_pos = initial_state.corner_pos
                 /\ s.corner_ort = initial_state.corner_ort

\* a slip in the table: b is paired with itself
inverse_action_table_selfpair == [a \in Action |->
    CASE a = "R" -> "r"
      [] a = "r" -> "R"
      [] a = "T" -> "t"
      [] a = "t" -> "T"
      [] a = "B" -> "b"
      [] a = "b" -> "b"]

\* the dict _inverse_action
_inverse_action == [a \in Action |->
    CASE a = "R" -> "r"
      [] a = "r" -> "R"
      [] a = "T" -> "t"
      [] a = "t" -> "T"
      [] a = "B" -> "b"
      [] a = "b" -> "B"]

\* inverse_action(action): a lookup in _inverse_action
inverse_action(action) == _inverse_action[action]

\* a slip in R's corner rotate: slot 6 gets flip 1 instead of 2
transform_map_bad_flip == [g \in {"R", "T", "B"} |->
    CASE g = "R" -> [c_map |-> << <<1, 2>>, <<2, 6>>, <<6, 5>>, <<5, 1>> >>,
                     c_rot |-> << <<1, 2>>, <<2, 1>>, <<5, 1>>, <<6, 1>> >>]
      [] g = "T" -> [c_map |-> << <<0, 3>>, <<1, 0>>, <<2, 1>>, <<3, 2>> >>,
                     c_rot |-> << >>]
      [] g = "B" -> [c_map |-> << <<2, 3>>, <<3, 7>>, <<7, 6>>, <<6, 2>> >>,
                     c_rot |-> << <<2, 2>>, <<3, 1>>, <<6, 1>>, <<7, 2>> >>]]

\* a slip in R's corner map: the last pair sends slot 5 to slot 2, not slot 1
transform_map_bad_cycle == [g \in {"R", "T", "B"} |->
    CASE g = "R" -> [c_map |-> << <<1, 2>>, <<2, 6>>, <<6, 5>>, <<5, 2>> >>,
                     c_rot |-> << <<1, 2>>, <<2, 1>>, <<5, 1>>, <<6, 2>> >>]
      [] g = "T" -> [c_map |-> << <<0, 3>>, <<1, 0>>, <<2, 1>>, <<3, 2>> >>,
                     c_rot |-> << >>]
      [] g = "B" -> [c_map |-> << <<2, 3>>, <<3, 7>>, <<7, 6>>, <<6, 2>> >>,
                     c_rot |-> << <<2, 2>>, <<3, 1>>, <<6, 1>>, <<7, 2>> >>]]

\* a slip in T's corner map: slot 2 is left out, three corners cycle
transform_map_T_short == [g \in {"R", "T", "B"} |->
    CASE g = "R" -> [c_map |-> << <<1, 2>>, <<2, 6>>, <<6, 5>>, <<5, 1>> >>,
                     c_rot |-> << <<1, 2>>, <<2, 1>>, <<5, 1>>, <<6, 2>> >>]
      [] g = "T" -> [c_map |-> << <<0, 3>>, <<1, 0>>, <<3, 1>> >>,
                     c_rot |-> << >>]
      [] g = "B" -> [c_map |-> << <<2, 3>>, <<3, 7>>, <<7, 6>>, <<6, 2>> >>,
                     c_rot |-> << <<2, 2>>, <<3, 1>>, <<6, 1>>, <<7, 2>> >>]]

\* a slip in B's tables: slot 4 stands where slot 7 should
transform_map_B_slot4 == [g \in {"R", "T", "B"} |->
    CASE g = "R" -> [c_map |-> << <<1, 2>>, <<2, 6>>, <<6, 5>>, <<5, 1>> >>,
                     c_rot |-> << <<1, 2>>, <<2, 1>>, <<5, 1>>, <<6, 2>> >>]
      [] g = "T" -> [c_map |-> << <<0, 3>>, <<1, 0>>, <<2, 1>>, <<3, 2>> >>,
                     c_rot |-> << >>]
      [] g = "B" -> [c_map |-> << <<2, 3>>, <<3, 4>>, <<4, 6>>, <<6, 2>> >>,
                     c_rot |-> << <<2, 2>>, <<3, 1>>, <<6, 1>>, <<4, 2>> >>]]

\* the dict _transform_map: generator -> [corner map, corner rotate]
_transform_map == [g \in {"R", "T", "B"} |->
    CASE g = "R" -> [c_map |-> << <<1, 2>>, <<2, 6>>, <<6, 5>>, <<5, 1>> >>,
                     c_rot |-> << <<1, 2>>, <<2, 1>>, <<5, 1>>, <<6, 2>> >>]
      [] g = "T" -> [c_map |-> << <<0, 3>>, <<1, 0>>, <<2, 1>>, <<3, 2>> >>,
                     c_rot |-> << >>]
      [] g = "B" -> [c_map |-> << <<2, 3>>, <<3, 7>>, <<7, 6>>, <<6, 2>> >>,
                     c_rot |-> << <<2, 2>>, <<3, 1>>, <<6, 1>>, <<7, 2>> >>]]

\* _common._permute(t, m, is_inv): r = list(t); for every (from, to) of m,
\* r[to] = t[from], or r[from] = t[to] when is_inv.  k is the loop position.
RECURSIVE permute_loop(_, _, _, _, _)
permute_loop(r, t, m, is_inv, k) ==
    IF k > Len(m) THEN r
    ELSE permute_loop(
            IF is_inv THEN [r EXCEPT ![m[k][1]] = t[m[k][2]]]
                      ELSE [r EXCEPT ![m[k][2]] = t[m[k][1]]],
            t, m, is_inv, k + 1)

_permute(t, m, is_inv) == permute_loop(t, t, m, is_inv, 1)

\* _common._rotate(corner_ort, corners): r = list(corner_ort); for every
\* (c, angle) of corners, r[c] = (r[c] + angle) % 3.
RECURSIVE rotate_loop(_, _, _)
rotate_loop(r, corners, k) ==
    IF k > Len(corners) THEN r
    ELSE rotate_loop([r EXCEPT ![corners[k][1]] = (r[corners[k][1]] + corners[k][2]) % 3],
                     corners, k + 1)

_rotate(corner_ort, corners) == rotate_loop(corner_ort, corners, 1)

\* a slip: the flips are added before the corners are moved, so that they
\* are keyed by the slot a corner leaves
transform_rotate_first(s, action) ==
    LET is_inv == action \notin DOMAIN _transform_map
        act    == IF is_inv THEN inverse_action(action) ELSE action
        c_map  == _transform_map[act].c_map
        c_rot  == _transform_map[act].c_rot
        pos    == _permute(s.corner_pos, c_map, is_inv)
        ort    == _rotate(s.corner_ort, c_rot)
    IN  [corner_pos |-> pos, corner_ort |-> _permute(ort, c_map, is_inv)]

\* a change: for an inverse action every flip f of the generator is
\* replaced by (3 - f) % 3
transform_negated(s, action) ==
    LET is_inv == action \notin DOMAIN _transform_map
        act    == IF is_inv THEN inverse_action(action) ELSE action
        c_map  == _transform_map[act].c_map
        c_rot  == _transform_map[act].c_rot
        n_rot  == [k \in 1..Len(c_rot) |-> <<c_rot[k][1], (3 - c_rot[k][2]) % 3>>]
        pos    == _permute(s.corner_pos, c_map, is_inv)
        ort    == _permute(s.corner_ort, c_map, is_inv)
    IN  [corner_pos |-> pos,
         corner_ort |-> _rotate(ort, IF is_inv THEN n_rot ELSE c_rot)]

\* a slip: the orientations of an inverse action are permuted forward
transform_ort_forward(s, action) ==
    LET is_inv == action \notin DOMAIN _transform_map
        act    == IF is_inv THEN inverse_action(action) ELSE action
        c_map  == _transform_map[act].c_map
        c_rot  == _transform_map[act].c_rot
        pos    == _permute(s.corner_pos, c_map, is_inv)
        ort    == _permute(s.corner_ort, c_map, FALSE)
    IN  [corner_pos |-> pos, corner_ort |-> _rotate(ort, c_rot)]

\* transform(state, action)
transform(s, action) ==
    LET is_inv == action \notin DOMAIN _transform_map
        act    == IF is_inv THEN inverse_action(action) ELSE action
        c_map  == _transform_map[act].c_map
        c_rot  == _transform_map[act].c_rot
        pos    == _permute(s.corner_pos, c_map, is_inv)
        ort    == _permute(s.corner_ort, c_map, is_inv)
    IN  [corner_pos |-> pos, corner_ort |-> _rotate(ort, c_rot)]

\* ------------------------------------------------------------- the encoder
\* encoded_shape = (7, 24)
EncRows == 0..6
EncCols == 0..23

\* a zeroed buffer of encoded_shape
ZeroTarget == [rc \in EncRows \X EncCols |-> 0]

\* tuple.index(x): the first index holding x
index(t, x) == CHOOSE i \in DOMAIN t : t[i] = x /\ \A j \in DOMAIN t : t[j] = x => i <= j

\* a slip: the orientation is read at index corner_idx, not at perm_pos
RECURSIVE encode_loop_ort_by_corner(_, _, _)
encode_loop_ort_by_corner(tg, s, corner_idx) ==
    IF corner_idx > 6 THEN tg
    ELSE LET perm_pos == index(s.corner_pos, corner_idx)
             corn_ort == s.corner_ort[corner_idx]
         IN  encode_loop_ort_by_corner(
                [tg EXCEPT ![<<corner_idx, perm_pos * 3 + corn_ort>>] = 1],
                s, corner_idx + 1)

\* a change: row corner_idx is cleared before its bit is set
RECURSIVE encode_loop_clear_row(_, _, _)
encode_loop_clear_row(tg, s, corner_idx) ==
    IF corner_idx > 6 THEN tg
    ELSE LET perm_pos == index(s.corner_pos, corner_idx)
             corn_ort == s.corner_ort[perm_pos]
             cleared  == [rc \in DOMAIN tg |-> IF rc[1] = corner_idx THEN 0 ELSE tg[rc]]
         IN  encode_loop_clear_row(
                [cleared EXCEPT ![<<corner_idx, perm_pos * 3 + corn_ort>>] = 1],
                s, corner_idx + 1)

\* the loop of encode_inplace over corner_idx in range(7), from corner_idx on
RECURSIVE encode_loop(_, _, _)
encode_loop(tg, s, corner_idx) ==
    IF corner_idx > 6 THEN tg
    ELSE LET perm_pos == index(s.corner_pos, corner_idx)
             corn_ort == s.corner_ort[perm_pos]
         IN  encode_loop([tg EXCEPT ![<<corner_idx, perm_pos * 3 + corn_ort>>] = 1],
                         s, corner_idx + 1)

\* encode_inplace(target, state): the buffer as the call leaves it
encode_inplace(tg, s) == encode_loop(tg, s, 0)

\* one pass of the loop body of encode_inplace: the two reads of the
\* immutable state and the one write target[corner_idx, ...] = 1
encode_step(tg, s, corner_idx) ==
    LET perm_pos == index(s.corner_pos, corner_idx)
        corn_ort == s.corner_ort[perm_pos]
    IN  [tg EXCEPT ![<<corner_idx, perm_pos * 3 + corn_ort>>] = 1]

\* ------------------------------------------------------------ the renderer
\* a slip in corner 1's colours: ('W', 'R', 'B') for ('W', 'B', 'R')
corner_colors_swapped == [c \in Slots |->
    CASE c = 0 -> [k \in 0..2 |-> <<"W", "R", "G">>[k + 1]]
      [] c = 1 -> [k \in 0..2 |-> <<"W", "R", "B">>[k + 1]]
      [] c = 2 -> [k \in 0..2 |-> <<"W", "O", "B">>[k + 1]]
      [] c = 3 -> [k \in 0..2 |-> <<"W", "G", "O">>[k + 1]]
      [] c = 4 -> [k \in 0..2 |-> <<"Y", "G", "R">>[k + 1]]
      [] c = 5 -> [k \in 0..2 |-> <<"Y", "R", "B">>[k + 1]]
      [] c = 6 -> [k \in 0..2 |-> <<"Y", "B", "O">>[k + 1]]
      [] c = 7 -> [k \in 0..2 |-> <<"Y", "O", "G">>[k + 1]]]

\* corner_colors: the colours of physical corner 0..7, clockwise from the
\* main label (tuple entries 0..2)
corner_colors == [c \in Slots |->
    CASE c = 0 -> [k \in 0..2 |-> <<"W", "R", "G">>[k + 1]]
      [] c = 1 -> [k \in 0..2 |-> <<"W", "B", "R">>[k + 1]]
      [] c = 2 -> [k \in 0..2 |-> <<"W", "O", "B">>[k + 1]]
      [] c = 3 -> [k \in 0..2 |-> <<"W", "G", "O">>[k + 1]]
      [] c = 4 -> [k \in 0..2 |-> <<"Y", "G", "R">>[k + 1]]
      [] c = 5 -> [k \in 0..2 |-> <<"Y", "R", "B">>[k + 1]]
      [] c = 6 -> [k \in 0..2 |-> <<"Y", "B", "O">>[k + 1]]
      [] c = 7 -> [k \in 0..2 |-> <<"Y", "O", "G">>[k + 1]]]

\* a slip in slot 7's placement: (1, 3), which slot 4 also uses, for (1, 2)
corner_maps_dup == [i \in Slots |->
    CASE i = 0 -> [k \in 0..2 |-> << <<0, 2>>, <<3, 0>>, <<1, 1>> >>[k + 1]]
      [] i = 1 -> [k \in 0..2 |-> << <<0, 3>>, <<4, 0>>, <<3, 1>> >>[k + 1]]
      [] i = 2 -> [k \in 0..2 |-> << <<0, 1>>, <<2, 0>>, <<4, 1>> >>[k + 1]]
      [] i = 3 -> [k \in 0..2 |-> << <<0, 0>>, <<1, 0>>, <<2, 1>> >>[k + 1]]
      [] i = 4 -> [k \in 0..2 |-> << <<5, 0>>, <<1, 3>>, <<3, 2>> >>[k + 1]]
      [] i = 5 -> [k \in 0..2 |-> << <<5, 1>>, <<3, 3>>, <<4, 2>> >>[k + 1]]
      [] i = 6 -> [k \in 0..2 |-> << <<5, 3>>, <<4, 3>>, <<2, 2>> >>[k + 1]]
      [] i = 7 -> [k \in 0..2 |-> << <<5, 2>>, <<2, 3>>, <<1, 3>> >>[k + 1]]]

\* corner_maps: for slot 0..7, the (side, cell) each of its 3 colours shows at
corner_maps == [i \in Slots |->
    CASE i = 0 -> [k \in 0..2 |-> << <<0, 2>>, <<3, 0>>, <<1, 1>> >>[k + 1]]
      [] i = 1 -> [k \in 0..2 |-> << <<0, 3>>, <<4, 0>>, <<3, 1>> >>[k + 1]]
      [] i = 2 -> [k \in 0..2 |-> << <<0, 1>>, <<2, 0>>, <<4, 1>> >>[k + 1]]
      [] i = 3 -> [k \in 0..2 |-> << <<0, 0>>, <<1, 0>>, <<2, 1>> >>[k + 1]]
      [] i = 4 -> [k \in 0..2 |-> << <<5, 0>>, <<1, 3>>, <<3, 2>> >>[k + 1]]
      [] i = 5 -> [k \in 0..2 |-> << <<5, 1>>, <<3, 3>>, <<4, 2>> >>[k + 1]]
      [] i = 6 -> [k \in 0..2 |-> << <<5, 3>>, <<4, 3>>, <<2, 2>> >>[k + 1]]
      [] i = 7 -> [k \in 0..2 |-> << <<5, 2>>, <<2, 3>>, <<1, 2>> >>[k + 1]]]

\* _init_sides(): 6 sides of 4 cells, every cell None
_init_sides == [arr_idx \in 0..5 |-> [cell \in 0..3 |-> "None"]]

\* _common._map_orient(cols, orient_id): cols for orientation 0,
\* (cols[2], cols[0], cols[1]) for 1, (cols[1], cols[2], cols[0]) for 2
_map_orient(cols, orient_id) ==
    IF orient_id = 0 THEN cols
    ELSE IF orient_id = 1 THEN [k \in 0..2 |-> cols[(k + 2) % 3]]
    ELSE [k \in 0..2 |-> cols[(k + 1) % 3]]

\* len(t) of a tuple t indexed from 0
len(t) == Cardinality(DOMAIN t)

\* the number of triples of zip(state.corner_pos, state.corner_ort, corner_maps)
zip_len(s) ==
    LET ls == {len(s.corner_pos), len(s.corner_ort), len(corner_maps)}
    IN  CHOOSE n \in ls : \A k \in ls : n <= k

\* the assignments sides[arr_idx][index] = col that render makes, in the
\* order of its two loops: entry 3*i + k + 1 is colour k of slot i
render_writes(s) ==
    [n \in 1..(3 * zip_len(s)) |->
        LET i    == (n - 1) \div 3
            k    == (n - 1) % 3
            cols == _map_orient(corner_colors[s.corner_pos[i]], s.corner_ort[i])
        IN  [arr_idx |-> corner_maps[i][k][1],
             index   |-> corner_maps[i][k][2],
             col     |-> cols[k]]]

\* sides after the first n assignments of render
RECURSIVE render_loop(_, _, _)
render_loop(sd, writes, n) ==
    IF n > Len(writes) THEN sd
    ELSE render_loop([sd EXCEPT ![writes[n].arr_idx][writes[n].index] = writes[n].col],
                     writes, n + 1)

\* render(state): the RenderedState returned
render(s) ==
    LET sd == render_loop(_init_sides, render_writes(s), 1)
    IN  [top |-> sd[0], left |-> sd[1], back |-> sd[2],
         front |-> sd[3], right |-> sd[4], bottom |-> sd[5]]

\* ------------------------------------------------------- the action tokens
\* a token is modelled as its sequence of characters: 'R+' is <<"R", "+">>

\* a slip: T is rendered by its enum name, 'T+', not by its face letter U
render_action_T_by_name(action) ==
    IF action = "R" THEN <<"R", "+">>
    ELSE IF action = "T" THEN <<"T", "+">>
    ELSE IF action = "B" THEN <<"B", "+">>
    ELSE IF action = "r" THEN <<"R", "-">>
    ELSE IF action = "t" THEN <<"U", "-">>
    ELSE IF action = "b" THEN <<"B", "-">>
    ELSE <<"?">>

\* render_action(action)
render_action(action) ==
    IF action = "R" THEN <<"R", "+">>
    ELSE IF action = "T" THEN <<"U", "+">>
    ELSE IF action = "B" THEN <<"B", "+">>
    ELSE IF action = "r" THEN <<"R", "-">>
    ELSE IF action = "t" THEN <<"U", "-">>
    ELSE IF action = "b" THEN <<"B", "-">>
    ELSE <<"?">>

\* a slip: a lower-case face letter is taken for the inverse move
to_action_lower_case(f) ==
    IF f = <<"R", "+">> THEN "R"
    ELSE IF f = <<"U", "+">> THEN "T"
    ELSE IF f = <<"B", "+">> THEN "B"
    ELSE IF f = <<"R", "-">> \/ f = <<"r">> THEN "r"
    ELSE IF f = <<"U", "-">> \/ f = <<"u">> THEN "t"
    ELSE IF f = <<"B", "-">> \/ f = <<"b">> THEN "b"
    ELSE "None"

\* to_action(form): the Action, or "None" for Python's None
to_action(f) ==
    IF f = <<"R", "+">> THEN "R"
    ELSE IF f = <<"U", "+">> THEN "T"
    ELSE IF f = <<"B", "+">> THEN "B"
    ELSE IF f = <<"R", "-">> THEN "r"
    ELSE IF f = <<"U", "-">> THEN "t"
    ELSE IF f = <<"B", "-">> THEN "b"
    ELSE "None"

\* the characters outside text is made of
Chars == {"R", "U", "B", "T", "Z", "r", "+", "-"}

\* the outside texts: every string of at most MaxTextLen of these characters
Texts == UNION {[1..n -> Chars] : n \in 0..MaxTextLen}

\* --------------------------------------------- calls on hand-built States
\* State is a namedtuple: State(corner_pos=..., corner_ort=...) accepts tuples
\* of any length.  The States a caller builds from a State s of the cube:
\* s itself, s with a ninth entry (corner 8, orientation 0) in both tuples,
\* s without the entry of slot 7 in both tuples, s with a ninth entry in
\* corner_ort only.
Kinds == {"same", "longer", "shorter", "ort_longer"}

Extend(t, x) == [i \in 0..len(t) |-> IF i = len(t) THEN x ELSE t[i]]

Cut(t) == [i \in 0..(len(t) - 2) |-> t[i]]

Built(s, kind) ==
    IF kind = "longer" THEN
        [corner_pos |-> Extend(s.corner_pos, 8), corner_ort |-> Extend(s.corner_ort, 0)]
    ELSE IF kind = "shorter" THEN
        [corner_pos |-> Cut(s.corner_pos), corner_ort |-> Cut(s.corner_ort)]
    ELSE IF kind = "ort_longer" THEN
        [corner_pos |-> s.corner_pos, corner_ort |-> Extend(s.corner_ort, 0)]
    ELSE s

\* the outcome of a call: the value returned, or the exception raised; buf
\* is the caller's buffer as the call left it
Returned(v, buf) == [raised |-> "", ret |-> <<v>>, buf |-> buf]

Raised(e, buf) == [raised |-> e, ret |-> << >>, buf |-> buf]

\* transform(state, action) on any State: the two asserts pass for every
\* State and Action; r[to] = t[from] in _permute and r[c] in _rotate raise
\* IndexError for a slot beyond the tuple
transform_call(s, action) ==
    LET is_inv == action \notin DOMAIN _transform_map
        act    == IF is_inv THEN inverse_action(action) ELSE action
        c_map  == _transform_map[act].c_map
        c_rot  == _transform_map[act].c_rot
        moved  == UNION {{c_map[k][1], c_map[k][2]} : k \in 1..Len(c_map)}
        turned == {c_rot[k][1] : k \in 1..Len(c_rot)}
    IN  IF /\ moved \subseteq DOMAIN s.corner_pos
           /\ moved \subseteq DOMAIN s.corner_ort
           /\ turned \subseteq DOMAIN s.corner_ort
        THEN Returned(transform(s, action), ZeroTarget)
        ELSE Raised("IndexError", ZeroTarget)

\* render(state) on any State: the assert passes for every State; the zip
\* stops at the shortest of its three sequences; corner_colors[corner] raises
\* IndexError for a corner beyond the table
render_call(s) ==
    IF \A i \in 0..(zip_len(s) - 1) : s.corner_pos[i] \in DOMAIN corner_colors
    THEN Returned(render(s), ZeroTarget)
    ELSE Raised("IndexError", ZeroTarget)

\* encode_inplace(target, state) on any State, from corner_idx on: the assert
\* passes for every State; corner_pos.index raises ValueError for an absent
\* corner, corner_ort[perm_pos] and target[corner_idx, column] raise
\* IndexError beyond their ends.  The bits set before a raise stay set.
RECURSIVE encode_call_loop(_, _, _)
encode_call_loop(tg, s, corner_idx) ==
    IF corner_idx > 6 THEN Returned(tg, tg)
    ELSE IF \A i \in DOMAIN s.corner_pos : s.corner_pos[i] # corner_idx
    THEN Raised("ValueError", tg)
    ELSE LET perm_pos == index(s.corner_pos, corner_idx) IN
         IF perm_pos \notin DOMAIN s.corner_ort THEN Raised("IndexError", tg)
         ELSE IF <<corner_idx, perm_pos * 3 + s.corner_ort[perm_pos]>> \notin DOMAIN tg
         THEN Raised("IndexError", tg)
         ELSE encode_call_loop(encode_step(tg, s, corner_idx), s, corner_idx + 1)

encode_inplace_call(tg, s) == encode_call_loop(tg, s, 0)

\* ------------------------------------------------------------ the driver
\* two concurrent callers of encode_inplace and the buffers they may pass
Procs == {1, 2}
Bufs == {1, 2}

\* the States the concurrent callers encode: initial_state and the 6 States
\* one transform call away
ArgStates == {initial_state} \cup {transform(initial_state, a) : a \in Action}

\* a caller that has not called yet.  pc is -1 before the call, the next
\* corner_idx during it, 7 after it returned; start is the buffer as the
\* call found it and ret the buffer as it was when the call returned.
NoCall == [pc |-> -1, st |-> initial_state, buf |-> 1,
           start |-> ZeroTarget, ret |-> ZeroTarget]

Init ==
    /\ state = initial_state
    /\ path = << >>
    /\ hist = << initial_state >>
    /\ target = ZeroTarget
    /\ encoded = << >>
    /\ sides = << >>
    /\ shown = << >>
    /\ form = << >>
    /\ origin = "text"
    /\ parsed = << >>
    /\ calls = [p \in Procs |-> NoCall]
    /\ bufs = [b \in Bufs |-> ZeroTarget]
    /\ bcall = << >>

\* the driver replaces the State it holds by transform(state, a)
Step(a) ==
    /\ state' = transform(state, a)
    /\ path' = Append(path, a)
    /\ hist' = Append(hist, state')
    /\ UNCHANGED <<target, encoded, sides, shown, tokenVars, concVars, bcall>>

\* a driver that only explores: up to MaxMoves transform calls
Move == \E a \in Action : Len(path) < MaxMoves /\ Step(a)

Next == Move

Spec == Init /\ [][Next]_vars

\* a driver that explores and views States: up to MaxViewMoves transform calls
ViewMove == \E a \in Action : Len(path) < MaxViewMoves /\ Step(a)

\* the driver calls encode_inplace(target, state) on its buffer as it is
Encode ==
    /\ Len(encoded) < MaxEncodes
    /\ target' = encode_inplace(target, state)
    /\ encoded' = Append(encoded, state)
    /\ UNCHANGED <<state, path, hist, sides, shown, tokenVars, concVars, bcall>>

\* the driver zeroes its buffer
Zero ==
    /\ encoded # << >>
    /\ target' = ZeroTarget
    /\ encoded' = << >>
    /\ UNCHANGED <<state, path, hist, sides, shown, tokenVars, concVars, bcall>>

NextEncode == ViewMove \/ Encode \/ Zero

SpecEncode == Init /\ [][NextEncode]_vars

\* the driver calls render(state)
Render ==
    /\ shown # <<state>>
    /\ sides' = <<render(state)>>
    /\ shown' = <<state>>
    /\ UNCHANGED <<state, path, hist, target, encoded, tokenVars, concVars, bcall>>

NextRender == ViewMove \/ Render

SpecRender == Init /\ [][NextRender]_vars

\* the driver calls render_action(a) and keeps the token; the result of an
\* earlier to_action call is dropped
RenderAction ==
    \E a \in Action :
        /\ form' = render_action(a)
        /\ origin' = a
        /\ parsed' = << >>
        /\ UNCHANGED <<state, path, hist, target, encoded, sides, shown, concVars, bcall>>

\* the driver takes a text from outside
ReadText ==
    \E f \in Texts :
        /\ form' = f
        /\ origin' = "text"
        /\ parsed' = << >>
        /\ UNCHANGED <<state, path, hist, target, encoded, sides, shown, concVars, bcall>>

\* the driver calls to_action(form)
ToAction ==
    /\ parsed' = <<[form |-> form, origin |-> origin, ret |-> to_action(form)]>>
    /\ UNCHANGED <<state, path, hist, target, encoded, sides, shown, form, origin, concVars, bcall>>

\* caller p calls encode_inplace(bufs[b], s)
CallEncode(p) ==
    \E s \in ArgStates : \E b \in Bufs :
        /\ calls[p].pc = -1
        /\ calls' = [calls EXCEPT ![p] = [pc |-> 0, st |-> s, buf |-> b,
                                          start |-> bufs[b], ret |-> ZeroTarget]]
        /\ UNCHANGED <<state, path, hist, target, encoded, sides, shown, tokenVars, bufs, bcall>>

\* a slip: the encoder writes into one module-level buffer, whatever target is
EncodeStepOneBuffer(p) ==
    LET c  == calls[p]
        tg == encode_step(bufs[1], c.st, c.pc)
    IN  /\ c.pc \in 0..6
        /\ bufs' = [bufs EXCEPT ![1] = tg]
        /\ calls' = [calls EXCEPT ![p].pc = c.pc + 1,
                                  ![p].ret = IF c.pc = 6 THEN bufs'[c.buf] ELSE c.ret]
        /\ UNCHANGED <<state, path, hist, target, encoded, sides, shown, tokenVars, bcall>>

\* caller p's call runs one pass of its loop; after the pass for corner 6
\* it returns
EncodeStep(p) ==
    LET c  == calls[p]
        tg == encode_step(bufs[c.buf], c.st, c.pc)
    IN  /\ c.pc \in 0..6
        /\ bufs' = [bufs EXCEPT ![c.buf] = tg]
        /\ calls' = [calls EXCEPT ![p].pc = c.pc + 1,
                                  ![p].ret = IF c.pc = 6 THEN tg ELSE c.ret]
        /\ UNCHANGED <<state, path, hist, target, encoded, sides, shown, tokenVars, bcall>>

NextConc == \E p \in Procs : CallEncode(p) \/ EncodeStep(p)

SpecConc == Init /\ [][NextConc]_vars

\* the driver builds a State from the one it holds and calls transform on it
CallTransform ==
    \E kind \in Kinds : \E a \in Action :
        LET arg == Built(state, kind) IN
        /\ bcall' = <<[fn |-> "transform", arg |-> arg, action |-> a,
                       out |-> transform_call(arg, a)]>>
        /\ UNCHANGED <<state, path, hist, target, encoded, sides, shown, tokenVars, concVars>>

\* the driver builds a State from the one it holds and calls render on it
CallRender ==
    \E kind \in Kinds :
        LET arg == Built(state, kind) IN
        /\ bcall' = <<[fn |-> "render", arg |-> arg, action |-> "",
                       out |-> render_call(arg)]>>
        /\ UNCHANGED <<state, path, hist, target, encoded, sides, shown, tokenVars, concVars>>

\* the driver builds a State from the one it holds and calls encode_inplace
\* on it with a fresh zeroed buffer
CallEncodeInplace ==
    \E kind \in Kinds :
        LET arg == Built(state, kind) IN
        /\ bcall' = <<[fn |-> "encode_inplace", arg |-> arg, action |-> "",
                       out |-> encode_inplace_call(ZeroTarget, arg)]>>
        /\ UNCHANGED <<state, path, hist, target, encoded, sides, shown, tokenVars, concVars>>

\* a driver that explores and builds States: up to MaxBuiltMoves transform calls
BuiltMove == \E a \in Action : Len(path) < MaxBuiltMoves /\ Step(a)

NextBoundary == BuiltMove \/ CallTransform \/ CallRender \/ CallEncodeInplace

SpecBoundary == Init /\ [][NextBoundary]_vars

NextToken == RenderAction \/ ReadText \/ ToAction

SpecToken == Init /\ [][NextToken]_vars

\* ------------------------------------------------------------ the claims
\* hist[k + 1] is the State held after the first k transform calls
After(k) == hist[k + 1]

Generators == {"R", "T", "B"}

\* C1: in every reachable state s, for every action a,
\* transform(transform(s, a), inverse_action(a)) = s, positions and
\* orientations alike; and whenever the driver applied a and then
\* inverse_action(a), it was back at the State it held before.
C1_TransformThenInverse ==
    /\ \A a \in Action : transform(transform(state, a), inverse_action(a)) = state
    /\ \A k \in 1..(Len(path) - 1) :
          path[k + 1] = inverse_action(path[k]) => After(k + 1) = After(k - 1)

\* C1 witness: from a scrambled State with twisted corners the driver applied
\* r and then R and holds the scrambled State again.
C1_Witness ==
    /\ Len(path) = 4
    /\ path[3] = "r" /\ path[4] = "R"
    /\ After(2) # initial_state
    /\ \E i \in Slots : After(2).corner_ort[i] # 0
    /\ After(3) # After(2)
    /\ state = After(2)

\* C2: every reachable State is well-formed: both tuples have the 8 indices
\* 0..7, corner_pos is a permutation of 0..7, every corner_ort entry is 0..2.
C2_WellFormed ==
    /\ DOMAIN state.corner_pos = Slots
    /\ DOMAIN state.corner_ort = Slots
    /\ \A c \in Slots : Cardinality({i \in Slots : state.corner_pos[i] = c}) = 1
    /\ \A i \in Slots : state.corner_ort[i] \in 0..2

\* C2 witness: after MaxMoves transform calls, with corners moved and twisted.
C2_Witness ==
    /\ Len(path) = MaxMoves
    /\ Cardinality({i \in Slots : state.corner_pos[i] # i}) >= 6
    /\ \E i \in Slots : state.corner_ort[i] = 1
    /\ \E i \in Slots : state.corner_ort[i] = 2

\* C3: inverse_action is total over the 6 actions and involutive, pairs R
\* with r, T with t, B with b (both ways) and maps no action to itself.
C3_InverseInvolutive ==
    /\ DOMAIN _inverse_action = Action
    /\ \A a \in Action :
          /\ inverse_action(a) \in Action
          /\ inverse_action(inverse_action(a)) = a
          /\ inverse_action(a) # a
    /\ inverse_action("R") = "r" /\ inverse_action("r") = "R"
    /\ inverse_action("T") = "t" /\ inverse_action("t") = "T"
    /\ inverse_action("B") = "b" /\ inverse_action("b") = "B"
    /\ \A k \in 1..Len(path) :
          inverse_action(inverse_action(path[k])) = path[k]

\* C3 witness: the driver applied b, for which transform looks up
\* inverse_action(b) = B, and then that inverse itself.
C3_Witness ==
    /\ Len(path) >= 2
    /\ path[1] = "b"
    /\ path[2] = inverse_action("b")
    /\ path[2] = "B"

\* the last n calls of the first k + 2n undo the n calls before them
Undoes(k, n) ==
    \A j \in 1..n : path[k + n + j] = inverse_action(path[k + n + 1 - j])

\* C4: from any State the driver reached, applying a1..an and then
\* inverse_action(an), ..., inverse_action(a1) gives back exactly that State;
\* in particular R, T, t, r from initial_state gives initial_state.
C4_UndoSequence ==
    /\ \A k \in 0..Len(path) : \A n \in 1..Len(path) :
          (k + 2 * n <= Len(path) /\ Undoes(k, n)) => After(k + 2 * n) = After(k)
    /\ path = <<"R", "T", "t", "r">> => state = initial_state

\* C4 witness: from the State after B the driver applied R, T, t, r and holds
\* the State after B again, having left it in between.
C4_Witness ==
    /\ path = <<"B", "R", "T", "t", "r">>
    /\ After(1) # initial_state
    /\ After(3) # After(1)
    /\ state = After(1)

\* C5: a generator applied 4 times in succession to initial_state gives
\* initial_state, positions and orientations included.
C5_OrderFour ==
    \A g \in Generators : path = <<g, g, g, g>> => state = initial_state

\* C5 witness: R applied 4 times; after 1, 2 and 3 turns the State differed.
C5_Witness ==
    /\ path = <<"R", "R", "R", "R">>
    /\ \A k \in 1..3 : After(k) # initial_state
    /\ state = initial_state

\* C6: is_initial(s) holds exactly when corner_pos is (0..7) and corner_ort
\* is all zeros; it holds for initial_state and fails after one transform
\* call, whichever of the 6 actions it is.
C6_IsInitial ==
    /\ is_initial(state) <=>
          \A i \in Slots : state.corner_pos[i] = i /\ state.corner_ort[i] = 0
    /\ is_initial(After(0))
    /\ Len(path) = 1 => ~is_initial(state)
    /\ \A a \in Action : ~is_initial(transform(initial_state, a))

\* C6 witness: is_initial answers false after T, which moves four corners and
\* twists none, and true again two calls later.
C6_Witness ==
    /\ path = <<"T", "R", "r", "t">>
    /\ ~is_initial(After(1))
    /\ is_initial(state)

\* the bits set in a buffer
SetBits(tg) == {rc \in DOMAIN tg : tg[rc] = 1}

\* C7: encode_inplace called on an all-zero 7 x 24 buffer leaves exactly 7
\* entries set to 1, one in each row c of 0..6, at column p*3 + o where p is
\* the slot with corner_pos[p] = c and o = corner_ort[p]; for initial_state
\* the set entry of row c is at column c*3.
C7_EncodeOneHot ==
    Len(encoded) = 1 =>
        LET s == encoded[1] IN
        /\ \A c \in EncRows : \A col \in EncCols :
              target[<<c, col>>] =
                  IF \E p \in Slots : s.corner_pos[p] = c /\ col = p * 3 + s.corner_ort[p]
                  THEN 1 ELSE 0
        /\ Cardinality(SetBits(target)) = 7
        /\ \A c \in EncRows : Cardinality({col \in EncCols : target[<<c, col>>] = 1}) = 1
        /\ s = initial_state => SetBits(target) = {<<c, c * 3>> : c \in EncRows}

\* C7 witness: one State encoded into the zeroed buffer, in which a corner
\* sits twisted in a slot other than its own, so its bit is off the c*3 column.
C7_Witness ==
    /\ Len(encoded) = 1
    /\ \E c \in EncRows : \E p \in Slots :
          /\ p # c
          /\ encoded[1].corner_pos[p] = c
          /\ encoded[1].corner_ort[p] = 2
          /\ target[<<c, p * 3 + 2>>] = 1
    /\ Cardinality(SetBits(target)) = 7

\* the States reachable from initial_state by at most n transform calls
RECURSIVE ReachWithin(_)
ReachWithin(n) ==
    IF n = 0 THEN {initial_state}
    ELSE LET R == ReachWithin(n - 1)
         IN  R \cup {transform(s, a) : s \in R, a \in Action}

\* every such State with its encoding into a zeroed buffer
EncodedReach == {<<s, encode_inplace(ZeroTarget, s)>> : s \in ReachWithin(MaxViewMoves)}

\* the sum of f over the rows c..6
RECURSIVE SumRows(_, _)
SumRows(f, c) == IF c > 6 THEN 0 ELSE f[c] + SumRows(f, c + 1)

\* the State that 7 one-hot rows determine: corners 0..6 as the rows say,
\* corner 7 in the slot left over, twisted so that the twists sum to 0 mod 3
Decode(tg) ==
    LET slot_of == [c \in EncRows |-> CHOOSE p \in Slots : \E o \in 0..2 : tg[<<c, p * 3 + o>>] = 1]
        ort_of  == [c \in EncRows |-> CHOOSE o \in 0..2 : tg[<<c, slot_of[c] * 3 + o>>] = 1]
        free    == CHOOSE p \in Slots : \A c \in EncRows : slot_of[c] # p
        ort7    == (3 - (SumRows(ort_of, 0) % 3)) % 3
        at(p)   == CHOOSE c \in EncRows : slot_of[c] = p
    IN  [corner_pos |-> [p \in Slots |-> IF p = free THEN 7 ELSE at(p)],
         corner_ort |-> [p \in Slots |-> IF p = free THEN ort7 ELSE ort_of[at(p)]]]

\* C8: over the reachable States the slot and twist of corner 7 follow from
\* those of corners 0..6, so the 7 rows determine the State: decoding the
\* buffer gives back the State encoded, and no other reachable State has the
\* same encoding.
C8_EncodingInjective ==
    Len(encoded) = 1 =>
        /\ Decode(target) = encoded[1]
        /\ \A pr \in EncodedReach : pr[2] = target => pr[1] = encoded[1]

\* C8 witness: a State encoded in which corner 7 has left slot 7 and is
\* twisted, and which the 7 rows still determine.
C8_Witness ==
    /\ Len(encoded) = 1
    /\ \E p \in Slots : /\ p # 7
                        /\ encoded[1].corner_pos[p] = 7
                        /\ encoded[1].corner_ort[p] # 0
    /\ Decode(target) = encoded[1]
    /\ Cardinality({pr \in EncodedReach : pr[2] = target}) = 1

\* the side of a RenderedState that _init_sides() numbers arr_idx
SideOf(r, arr_idx) ==
    CASE arr_idx = 0 -> r.top
      [] arr_idx = 1 -> r.left
      [] arr_idx = 2 -> r.back
      [] arr_idx = 3 -> r.front
      [] arr_idx = 4 -> r.right
      [] arr_idx = 5 -> r.bottom

AllCells == (0..5) \X (0..3)

\* C9: render writes each of the 24 (side, cell) positions exactly once: no
\* cell of the 6 returned sides is None, no cell is written twice, and
\* corner_maps is a bijection from (slot, colour index) onto the 24 cells.
C9_RenderFillsEveryCellOnce ==
    /\ \A i, j \in Slots : \A k, l \in 0..2 :
          corner_maps[i][k] = corner_maps[j][l] => (i = j /\ k = l)
    /\ {corner_maps[i][k] : i \in Slots, k \in 0..2} = AllCells
    /\ sides # << >> =>
          LET w == render_writes(shown[1]) IN
          /\ \A cell \in AllCells : SideOf(sides[1], cell[1])[cell[2]] # "None"
          /\ \A cell \in AllCells :
                Cardinality({n \in 1..24 : <<w[n].arr_idx, w[n].index>> = cell}) = 1
          /\ \A n \in 1..24 : SideOf(sides[1], w[n].arr_idx)[w[n].index] = w[n].col

\* C9 witness: a scrambled State with twisted corners rendered, all 24 cells
\* coloured.
C9_Witness ==
    /\ sides # << >>
    /\ shown[1] # initial_state
    /\ \E i \in Slots : shown[1].corner_ort[i] = 1
    /\ \A cell \in AllCells :
          SideOf(sides[1], cell[1])[cell[2]] \in {"W", "Y", "R", "G", "B", "O"}

\* C10: render(initial_state) shows on each of the 6 sides four cells of one
\* colour, six different colours in all, and four 'W' on top.
C10_RenderInitialSolved ==
    shown = <<initial_state>> =>
        /\ \A a \in 0..5 : \A cell \in 0..3 :
              SideOf(sides[1], a)[cell] = SideOf(sides[1], a)[0]
        /\ Cardinality({SideOf(sides[1], a)[0] : a \in 0..5}) = 6
        /\ \A a \in 0..5 : SideOf(sides[1], a)[0] # "None"
        /\ sides[1].top = [cell \in 0..3 |-> "W"]

\* C10 witness: initial_state rendered, 'W' on top and 'Y' on the bottom.
C10_Witness ==
    /\ shown = <<initial_state>>
    /\ sides # << >>
    /\ sides[1].top = [cell \in 0..3 |-> "W"]
    /\ sides[1].bottom = [cell \in 0..3 |-> "Y"]
    /\ DOMAIN sides[1] = {"top", "front", "left", "right", "back", "bottom"}

\* the six action tokens
SixTokens == {<<"R", "+">>, <<"U", "+">>, <<"B", "+">>,
              <<"R", "-">>, <<"U", "-">>, <<"B", "-">>}

\* C11: to_action(render_action(a)) = a for all 6 actions; render_action
\* gives 6 different 2-character tokens, a face letter of R, U, B followed
\* by '+' for a generator and '-' for an inverse, and never '?'.
C11_TokenRoundTrip ==
    /\ \A a \in Action :
          /\ to_action(render_action(a)) = a
          /\ Len(render_action(a)) = 2
          /\ render_action(a)[1] \in {"R", "U", "B"}
          /\ render_action(a)[2] = (IF a \in Generators THEN "+" ELSE "-")
          /\ render_action(a) # <<"?">>
    /\ Cardinality({render_action(a) : a \in Action}) = 6
    /\ origin \in Action => form \in SixTokens
    /\ (parsed # << >> /\ parsed[1].origin \in Action) =>
          parsed[1].ret = parsed[1].origin

\* C11 witness: the driver rendered T, got 'U+', and to_action gave T back.
C11_Witness ==
    /\ parsed # << >>
    /\ parsed[1].origin = "T"
    /\ parsed[1].form = <<"U", "+">>
    /\ parsed[1].ret = "T"

\* C12: to_action returns None for every input that is not one of the six
\* tokens R+, U+, B+, R-, U-, B- (ZZ, the empty string, lower-case and
\* single-letter tokens among them), and an Action only for those six.
C12_UnknownTokenIsNone ==
    /\ \A f \in Texts :
          /\ f \notin SixTokens => to_action(f) = "None"
          /\ f \in SixTokens => to_action(f) \in Action
    /\ parsed # << >> =>
          /\ parsed[1].ret \in Action \cup {"None"}
          /\ parsed[1].ret \in Action <=> parsed[1].form \in SixTokens

\* C12 witness: to_action was given 'ZZ' and returned None.
C12_Witness ==
    /\ parsed # << >>
    /\ parsed[1].origin = "text"
    /\ parsed[1].form = <<"Z", "Z">>
    /\ parsed[1].ret = "None"

\* the call of the other caller
Other(p) == calls[3 - p]

\* caller p's call overlapped a call of the other caller on the same buffer
Shared(p) == Other(p).pc # -1 /\ Other(p).buf = calls[p].buf

\* C13 as claimed: under any interleaving of concurrent calls, no call
\* changes what another call can observe, so every encode_inplace call
\* returns with its buffer as it would have left it running alone.
C13_EncodeAsIfAlone ==
    \A p \in Procs :
        calls[p].pc = 7 => calls[p].ret = encode_inplace(calls[p].start, calls[p].st)

\* C13 as amended: encode_inplace writes into its caller's buffer.  A call
\* whose buffer no other caller uses returns with the buffer as running
\* alone leaves it; two calls on one buffer see each other's writes, and the
\* buffer ends up holding the bits of both.
C13_EncodeAloneOnOwnBuffer ==
    /\ \A p \in Procs :
          (calls[p].pc = 7 /\ ~Shared(p)) =>
              /\ calls[p].ret = encode_inplace(calls[p].start, calls[p].st)
              /\ bufs[calls[p].buf] = calls[p].ret
    /\ \A p \in Procs :
          (calls[p].pc = 7 /\ Other(p).pc = 7 /\ Shared(p)) =>
              SetBits(bufs[calls[p].buf]) =
                  SetBits(encode_inplace(ZeroTarget, calls[p].st))
                      \cup SetBits(encode_inplace(ZeroTarget, Other(p).st))

\* C13 witness: both callers encoded different States at the same time, each
\* into a buffer of its own, and each got the encoding of its State alone.
C13_Witness ==
    /\ calls[1].pc = 7 /\ calls[2].pc = 7
    /\ calls[1].buf # calls[2].buf
    /\ calls[1].st # calls[2].st
    /\ calls[1].ret = encode_inplace(ZeroTarget, calls[1].st)
    /\ calls[2].ret = encode_inplace(ZeroTarget, calls[2].st)
    /\ calls[1].ret # calls[2].ret

\* the (source, destination) pairs of generator g's position cycle
Cycle(g) == {_transform_map[g].c_map[k] : k \in 1..Len(_transform_map[g].c_map)}

\* the slots of that cycle
CycleSlots(g) == {pr[2] : pr \in Cycle(g)}

\* generator g's listed delta for a slot, 0 if none is listed
Delta(g, slot) ==
    LET c_rot == _transform_map[g].c_rot
        ks    == {k \in 1..Len(c_rot) : c_rot[k][1] = slot}
    IN  IF ks = {} THEN 0 ELSE c_rot[CHOOSE k \in ks : TRUE][2]

\* t is s with the contents of g's cycle moved from source to destination
\* and the delta of the destination slot added
GeneratorMoves(s, t, g) ==
    /\ Cardinality(CycleSlots(g)) = 4
    /\ \A pr \in Cycle(g) :
          /\ t.corner_pos[pr[2]] = s.corner_pos[pr[1]]
          /\ t.corner_ort[pr[2]] = (s.corner_ort[pr[1]] + Delta(g, pr[2])) % 3
    /\ \A i \in Slots \ CycleSlots(g) :
          /\ t.corner_pos[i] = s.corner_pos[i]
          /\ t.corner_ort[i] = s.corner_ort[i]

\* C14: for a generator g, transform(s, g) moves corner_pos and corner_ort
\* from src to dst for each (src, dst) of g's cycle, adds g's delta listed
\* for dst (0 if none) mod 3, and leaves every slot outside the cycle as it is.
C14_GeneratorSemantics ==
    /\ \A g \in Generators : GeneratorMoves(state, transform(state, g), g)
    /\ \A k \in 1..Len(path) :
          path[k] \in Generators => GeneratorMoves(After(k - 1), After(k), path[k])

\* C14 witness: B applied to a State whose corners in B's cycle were already
\* twisted and out of place.
C14_Witness ==
    /\ Len(path) = 3
    /\ path[3] = "B"
    /\ \A i \in CycleSlots("B") : After(2).corner_pos[i] # i
    /\ \E i \in CycleSlots("B") : After(2).corner_ort[i] = 1
    /\ GeneratorMoves(After(2), state, "B")
    /\ state.corner_ort # After(2).corner_ort

\* t is s with the contents of g's cycle moved back from destination to
\* source and sign * (the delta listed for the slot arrived at) added, where
\* sign is 1 for the delta itself and -1 for the negated delta
InverseMoves(s, t, g, sign) ==
    /\ \A pr \in Cycle(g) :
          /\ t.corner_pos[pr[1]] = s.corner_pos[pr[2]]
          /\ t.corner_ort[pr[1]] =
                (s.corner_ort[pr[2]] + ((3 + sign * Delta(g, pr[1])) % 3)) % 3
    /\ \A i \in Slots \ CycleSlots(g) :
          /\ t.corner_pos[i] = s.corner_pos[i]
          /\ t.corner_ort[i] = s.corner_ort[i]

\* C15 as claimed: for an inverse action transform takes the counterpart
\* generator's entry, moves corner_pos and corner_ort along the cycle from
\* destination to source, and then adds (3 - delta) mod 3 at each listed slot.
C15_InverseNegatesDeltas ==
    \A k \in 1..Len(path) :
        path[k] \notin Generators =>
            InverseMoves(After(k - 1), After(k), inverse_action(path[k]), -1)

\* C15 as amended: for an inverse action transform takes the counterpart
\* generator's entry, moves corner_pos and corner_ort along the cycle from
\* destination to source, and then adds the generator's own delta at each
\* listed slot; that is the negated delta of the slot the corner came from.
C15_InverseSameDeltas ==
    /\ \A a \in Action \ Generators :
          InverseMoves(state, transform(state, a), inverse_action(a), 1)
    /\ \A k \in 1..Len(path) :
          path[k] \notin Generators =>
              LET g == inverse_action(path[k]) IN
              /\ InverseMoves(After(k - 1), After(k), g, 1)
              /\ \A pr \in Cycle(g) :
                    After(k).corner_ort[pr[1]] =
                        (After(k - 1).corner_ort[pr[2]] + 3 - Delta(g, pr[2])) % 3

\* C15 witness: b applied to a State whose corners in B's cycle were already
\* twisted; the orientations changed.
C15_Witness ==
    /\ Len(path) = 3
    /\ path[3] = "b"
    /\ \E i \in CycleSlots("B") : After(2).corner_ort[i] = 2
    /\ After(2).corner_pos[7] # 7
    /\ InverseMoves(After(2), state, "B", 1)
    /\ ~InverseMoves(After(2), state, "B", -1)

\* the set columns of row c of a buffer
RowBits(tg, c) == {col \in EncCols : tg[<<c, col>>] = 1}

\* C16: an encode_inplace call writes only the value 1, into at most 7
\* entries of the caller's buffer, and leaves every other entry as it was; it
\* clears no bit, so after encoding s1 and then a different State s2 without
\* zeroing in between the bits of s1 are still set and some row has more
\* than one set bit.
C16_EncodeOnlySetsBits ==
    [][Len(encoded') = Len(encoded) + 1 =>
        LET changed == {rc \in DOMAIN target : target'[rc] # target[rc]} IN
        /\ DOMAIN target' = DOMAIN target
        /\ \A rc \in changed : target'[rc] = 1
        /\ Cardinality(changed) <= 7
        /\ SetBits(target) \subseteq SetBits(target')
        /\ (Len(encoded') = 2 /\ encoded'[1] # encoded'[2]) =>
              /\ SetBits(encode_inplace(ZeroTarget, encoded'[1])) \subseteq SetBits(target')
              /\ \E c \in EncRows : Cardinality(RowBits(target', c)) > 1
    ]_vars

\* C16 witness: two different States encoded into the buffer without zeroing
\* it: more than 7 bits are set, those of the first State among them.
C16_Witness ==
    /\ Len(encoded) = 2
    /\ encoded[1] # encoded[2]
    /\ Cardinality(SetBits(target)) > 7
    /\ SetBits(encode_inplace(ZeroTarget, encoded[1])) \subseteq SetBits(target)
    /\ SetBits(encode_inplace(ZeroTarget, encoded[2])) \subseteq SetBits(target)
    /\ \E c \in EncRows : Cardinality(RowBits(target, c)) = 2

\* a State one of whose tuples does not have 8 entries
Malformed(s) == len(s.corner_pos) # 8 \/ len(s.corner_ort) # 8

\* C17: transform, render and encode_inplace, given a State whose corner_pos
\* or corner_ort does not have length 8, signal an error and return no
\* result, for every action; no result is computed from such a State.
C17_MalformedFailsFast ==
    (bcall # << >> /\ Malformed(bcall[1].arg)) =>
        /\ bcall[1].out.raised # ""
        /\ bcall[1].out.ret = << >>
        /\ bcall[1].out.buf = ZeroTarget

\* what the calls do on a State with 9 entries: each returns a result
BuiltLongerReturns ==
    (bcall # << >> /\ len(bcall[1].arg.corner_pos) = 9) =>
        /\ bcall[1].out.raised = ""
        /\ bcall[1].fn = "transform" => len(bcall[1].out.ret[1].corner_pos) = 9

\* C17 witness: a call on a State one of whose tuples does not have 8
\* entries returned a result
C17_Witness ==
    /\ bcall # << >>
    /\ Malformed(bcall[1].arg)
    /\ bcall[1].out.raised = ""

\* the sum of the 8 entries of corner_ort
TwistSum(s) == SumRows(s.corner_ort, 0) + s.corner_ort[7]

\* the sum of the orientation deltas of generator g
RECURSIVE DeltaSum(_, _)
DeltaSum(c_rot, k) == IF k > Len(c_rot) THEN 0 ELSE c_rot[k][2] + DeltaSum(c_rot, k + 1)

\* C18: in every State reached from initial_state by a sequence of the 6
\* actions the 8 entries of corner_ort sum to 0 modulo 3, and the orientation
\* deltas of every action sum to a multiple of 3.
C18_TwistSumZero ==
    /\ TwistSum(state) % 3 = 0
    /\ \A a \in Action :
          DeltaSum(_transform_map[IF a \in Generators THEN a ELSE inverse_action(a)].c_rot, 1) % 3 = 0

\* C18 witness: after generators and inverses a State with twisted corners,
\* whose twists sum to a positive multiple of 3.
C18_Witness ==
    /\ Len(path) >= 3
    /\ \E k \in 1..Len(path) : path[k] \in Generators
    /\ \E k \in 1..Len(path) : path[k] \notin Generators
    /\ \E i \in Slots : state.corner_ort[i] = 1
    /\ \E i \in Slots : state.corner_ort[i] = 2
    /\ TwistSum(state) >= 6

\* the slots named in the tables of generator g
TouchedSlots(g) ==
    UNION {{pr[1], pr[2]} : pr \in Cycle(g)}
        \cup {_transform_map[g].c_rot[k][1] : k \in 1..Len(_transform_map[g].c_rot)}

\* C19: slot 4 is touched by no action: in every State reached from
\* initial_state corner_pos[4] = 4 and corner_ort[4] = 0, no table names
\* slot 4, and every other slot is changed by at least one action.
C19_SlotFourFixed ==
    /\ state.corner_pos[4] = 4
    /\ state.corner_ort[4] = 0
    /\ \A g \in Generators : 4 \notin TouchedSlots(g)
    /\ \A a \in Action :
          LET t == transform(state, a) IN
          /\ t.corner_pos[4] = state.corner_pos[4]
          /\ t.corner_ort[4] = state.corner_ort[4]
    /\ \A i \in Slots \ {4} :
          \E a \in Action :
              LET t == transform(state, a) IN
              t.corner_pos[i] # state.corner_pos[i] \/ t.corner_ort[i] # state.corner_ort[i]

\* C19 witness: a State in which every slot but slot 4 holds another corner
\* than at the start, reached with all three faces turned.
C19_Witness ==
    /\ \A i \in Slots \ {4} : state.corner_pos[i] # i
    /\ \E i \in Slots : state.corner_ort[i] # 0
    /\ \A g \in Generators :
          \E k \in 1..Len(path) : path[k] = g \/ path[k] = inverse_action(g)
    /\ state.corner_pos[4] = 4
    /\ state.corner_ort[4] = 0

====
